---- MODULE Spec2Model ----
(***************************************************************************)
(* A model of the 2D rectangle bin-packing engine: the geometric placement *)
(* model (src/problem/solution.rs), the greedy heuristic                   *)
(* (src/problem/greedy.rs), the local-search neighborhoods                 *)
(* (src/problem/local_search.rs), the two generic skeletons                *)
(* (src/algorithms) and the overlap-annealing driver (src/testing/mod.rs). *)
(***************************************************************************)
EXTENDS Integers, Sequences, FiniteSets, TLC

(* ------------------------------------------------------------------ *)
(* Bounds of the model                                                  *)
(* ------------------------------------------------------------------ *)
\* largest number of rectangles of a generated instance
MaxRects == 2
\* largest number of placements the direct calls of try_place put into the bin
MaxPlacements == 3

\* side lengths of the rectangles of the generated instances
Sides == {1, 2}
\* box sizes of the generated instances
BoxSizes == {3}

(* ------------------------------------------------------------------ *)
(* Program constants                                                    *)
(* ------------------------------------------------------------------ *)
\* run_overlapping_ls: start_sol.with_penalty(10)
InitialPenalty == 10
\* run_overlapping_ls: let steps = 10
Steps == 10
\* run_overlapping_ls: Some(p * 5)
PenaltyGrowth == 5

(* Option<T>: None is the empty sequence, Some(v) the one-element one. *)
None == << >>
Some(v) == << v >>

(* ------------------------------------------------------------------ *)
(* Generic sequence helpers (iterator adaptors of the source)           *)
(* ------------------------------------------------------------------ *)
\* Op applied to the value of v, with v evaluated once
Eval(v, Op(_)) == CHOOSE r \in {Op(x) : x \in {v}} : TRUE

RECURSIVE FlatMap(_, _, _)
\* (k..n).flat_map(f): the sequences f[k], f[k + 1], ..., f[n] chained in order
FlatMap(k, n, f) == IF k > n THEN << >> ELSE f[k] \o FlatMap(k + 1, n, f)

RECURSIVE Sum(_, _, _)
\* (k..n).map(f).sum()
Sum(k, n, f) == IF k > n THEN 0 ELSE f[k] + Sum(k + 1, n, f)

\* Vec::swap_remove(i): element i is replaced by the last one (1-based here)
swap_remove(s, i) ==
    IF i = Len(s) THEN SubSeq(s, 1, Len(s) - 1)
    ELSE SubSeq(s, 1, i - 1) \o << s[Len(s)] >> \o SubSeq(s, i + 1, Len(s) - 1)

\* Vec::remove(i): the later elements shift left
remove(s, i) == SubSeq(s, 1, i - 1) \o SubSeq(s, i + 1, Len(s))

\* slice::swap(i, j)
swap(s, i, j) == [s EXCEPT ![i] = s[j], ![j] = s[i]]

Max(a, b) == IF a >= b THEN a ELSE b
Min(a, b) == IF a <= b THEN a ELSE b

(* ------------------------------------------------------------------ *)
(* rect.rs                                                              *)
(* ------------------------------------------------------------------ *)
Rect(id, w, h) == [id |-> id, width |-> w, height |-> h]

area(r) == r.width * r.height

(* ------------------------------------------------------------------ *)
(* solution.rs: Placement                                               *)
(* ------------------------------------------------------------------ *)
Placement(rect, x, y, rotated) == [rect |-> rect, x |-> x, y |-> y, rotated |-> rotated]

width(p) == IF p.rotated THEN p.rect.height ELSE p.rect.width

height(p) == IF p.rotated THEN p.rect.width ELSE p.rect.height

\* a faulty intersects: placements that only touch count as intersecting
intersects_touching(self, other) ==
    ~(self.x + width(self) < other.x \/ other.x + width(other) < self.x
      \/ self.y + height(self) < other.y \/ other.y + height(other) < self.y)

intersects(self, other) ==
    LET r1_x2 == self.x + width(self)
        r1_y2 == self.y + height(self)
        r2_x2 == other.x + width(other)
        r2_y2 == other.y + height(other)
    IN  ~(r1_x2 <= other.x \/ r2_x2 <= self.x \/ r1_y2 <= other.y \/ r2_y2 <= self.y)

intersection_area(self, other) ==
    LET x_overlap_start == Max(self.x, other.x)
        x_overlap_end   == Min(self.x + width(self), other.x + width(other))
        y_overlap_start == Max(self.y, other.y)
        y_overlap_end   == Min(self.y + height(self), other.y + height(other))
    IN  IF x_overlap_start < x_overlap_end /\ y_overlap_start < y_overlap_end
        THEN (x_overlap_end - x_overlap_start) * (y_overlap_end - y_overlap_start)
        ELSE 0

(* ------------------------------------------------------------------ *)
(* solution.rs: BoxBin                                                  *)
(* ------------------------------------------------------------------ *)
BoxBin(capacity) == [capacity |-> capacity, placements |-> << >>]

\* Vec::push on the bin's placements
PushPlacement(bin, p) == [bin EXCEPT !.placements = Append(@, p)]

\* a faulty try_place: the bounds check is off by one (>= for >)
try_place_off_by_one(bin, rect, x, y, rotated) ==
    LET new_placement == Placement(rect, x, y, rotated)
    IN  IF x + width(new_placement) >= bin.capacity \/ y + height(new_placement) >= bin.capacity
        THEN [ok |-> FALSE, bin |-> bin]
        ELSE IF \E i \in 1..Len(bin.placements) : intersects(new_placement, bin.placements[i])
        THEN [ok |-> FALSE, bin |-> bin]
        ELSE [ok |-> TRUE, bin |-> PushPlacement(bin, new_placement)]

\* returns [ok, bin]: the return value and the bin afterwards
try_place(bin, rect, x, y, rotated) ==
    LET new_placement == Placement(rect, x, y, rotated)
    IN  IF x + width(new_placement) > bin.capacity \/ y + height(new_placement) > bin.capacity
        THEN [ok |-> FALSE, bin |-> bin]
        ELSE IF \E i \in 1..Len(bin.placements) : intersects(new_placement, bin.placements[i])
        THEN [ok |-> FALSE, bin |-> bin]
        ELSE [ok |-> TRUE, bin |-> PushPlacement(bin, new_placement)]

\* a faulty can_place: the intersection check is left out
can_place_bounds_only(bin, rect, x, y, rotated) ==
    LET w == IF rotated THEN rect.height ELSE rect.width
        h == IF rotated THEN rect.width ELSE rect.height
    IN  ~(x + w > bin.capacity \/ y + h > bin.capacity)

can_place(bin, rect, x, y, rotated) ==
    LET w == IF rotated THEN rect.height ELSE rect.width
        h == IF rotated THEN rect.width ELSE rect.height
        candidate == Placement(rect, x, y, rotated)
    IN  IF x + w > bin.capacity \/ y + h > bin.capacity
        THEN FALSE
        ELSE ~ \E i \in 1..Len(bin.placements) : intersects(candidate, bin.placements[i])

\* the HashSet of candidate anchors: the origin and two corners per placement
candidates(bin) ==
    {<<0, 0>>}
    \cup {<<bin.placements[i].x + width(bin.placements[i]), bin.placements[i].y>> :
            i \in {j \in 1..Len(bin.placements) :
                     /\ bin.placements[j].x + width(bin.placements[j]) < bin.capacity
                     /\ bin.placements[j].y < bin.capacity}}
    \cup {<<bin.placements[i].x, bin.placements[i].y + height(bin.placements[i])>> :
            i \in {j \in 1..Len(bin.placements) :
                     /\ bin.placements[j].x < bin.capacity
                     /\ bin.placements[j].y + height(bin.placements[j]) < bin.capacity}}

\* a faulty comparator: x first, then y
CandidateLeqXFirst(a, b) == IF a[1] # b[1] THEN a[1] <= b[1] ELSE a[2] <= b[2]

\* the comparator of sort_by: y first, then x
CandidateLeq(a, b) == IF a[2] # b[2] THEN a[2] <= b[2] ELSE a[1] <= b[1]

\* the candidates in ascending order: the k-th has k - 1 candidates before it
SortCandidates(S) ==
    FlatMap(1, Cardinality(S), [k \in 1..Cardinality(S) |->
        << CHOOSE c \in S : Cardinality({d \in S : d # c /\ CandidateLeq(d, c)}) = k - 1 >>])

sorted_candidates(bin) == Eval(candidates(bin), SortCandidates)

RECURSIVE FindFirst(_, _, _)
\* the loop "for (x, y) in sorted_candidates": unrotated first, then rotated
FindFirst(bin, rect, cs) ==
    IF Len(cs) = 0 THEN None
    ELSE LET x == Head(cs)[1]
             y == Head(cs)[2]
         IN  IF can_place(bin, rect, x, y, FALSE) THEN Some([x |-> x, y |-> y, rotated |-> FALSE])
             ELSE IF can_place(bin, rect, x, y, TRUE) THEN Some([x |-> x, y |-> y, rotated |-> TRUE])
             ELSE FindFirst(bin, rect, Tail(cs))

find_position_in_box(bin, rect) ==
    Eval(sorted_candidates(bin), LAMBDA cs : FindFirst(bin, rect, cs))

(* ------------------------------------------------------------------ *)
(* solution.rs: RectangleSolution::cost and PermutationSolution::cost   *)
(* ------------------------------------------------------------------ *)
\* bin.placements.iter().map(|p| p.rect.area()).sum()
used_area(bin) ==
    Sum(1, Len(bin.placements), [i \in 1..Len(bin.placements) |-> area(bin.placements[i].rect)])

\* the double loop over i < j of one bin: the sum of the pairwise overlaps
bin_penalty(bin) ==
    Sum(1, Len(bin.placements), [i \in 1..Len(bin.placements) |->
        Sum(i + 1, Len(bin.placements), [j \in (i + 1)..Len(bin.placements) |->
            intersection_area(bin.placements[i], bin.placements[j])])])

\* (box_size as i64).pow(4) + 1
box_weight(box_size) == box_size * box_size * box_size * box_size + 1

\* the Cost pair (usize, i64) of a RectangleSolution
cost(boxes, penalty_factor, box_size) ==
    LET num_boxes == Len(boxes)
        squares == Sum(1, Len(boxes), [b \in 1..Len(boxes) |-> used_area(boxes[b]) * used_area(boxes[b])])
    IN  IF penalty_factor # None
        THEN LET total_penalty == Sum(1, Len(boxes), [b \in 1..Len(boxes) |-> bin_penalty(boxes[b])])
                 density_score == 0 - squares
             IN  << 0, total_penalty * penalty_factor[1] + density_score
                        + num_boxes * box_weight(box_size) >>
        ELSE << num_boxes, 0 - squares >>

\* a faulty comparison: <= for <
CostLessOrEqual(a, b) == a[1] < b[1] \/ (a[1] = b[1] /\ a[2] <= b[2])

\* Ord on the tuple (usize, i64): lexicographic
CostLess(a, b) == a[1] < b[1] \/ (a[1] = b[1] /\ a[2] < b[2])

RECURSIVE FirstFit(_, _, _)
\* "for bin in boxes.iter_mut()" of PermutationSolution::cost, from bin k on:
\* the first bin with a position takes the rectangle; None when there is none
FirstFit(boxes, rect, k) ==
    IF k > Len(boxes) THEN None
    ELSE Eval(find_position_in_box(boxes[k], rect), LAMBDA pos :
            IF pos # None
            THEN Some([boxes EXCEPT ![k] =
                       PushPlacement(@, Placement(rect, pos[1].x, pos[1].y, pos[1].rotated))])
            ELSE FirstFit(boxes, rect, k + 1))

\* the body of the loop over the sequence: the boxes with rect placed
PlaceNext(boxes, rect, box_size) ==
    LET fit == FirstFit(boxes, rect, 1)
    IN  IF fit # None THEN fit[1]
        ELSE Append(boxes, PushPlacement(BoxBin(box_size), Placement(rect, 0, 0, FALSE)))

RECURSIVE Reconstruct(_, _, _)
\* the loop "for &rect in &self.sequence" of PermutationSolution::cost
Reconstruct(boxes, sequence, box_size) ==
    IF Len(sequence) = 0 THEN boxes
    ELSE Eval(PlaceNext(boxes, Head(sequence), box_size),
              LAMBDA placed : Reconstruct(placed, Tail(sequence), box_size))

\* the Cost pair of a PermutationSolution
perm_cost(sequence, box_size) ==
    Eval(Reconstruct(<< >>, sequence, box_size), LAMBDA boxes :
        LET score == Sum(1, Len(boxes), [b \in 1..Len(boxes) |-> used_area(boxes[b]) * used_area(boxes[b])])
        IN  << Len(boxes), 0 - score >>)

(* ------------------------------------------------------------------ *)
(* greedy.rs                                                            *)
(* ------------------------------------------------------------------ *)
RECURSIVE PlaceFirst(_, _, _)
\* the loop "for (x, y) in sorted_candidates" of try_place_cp
PlaceFirst(bin, rect, cs) ==
    IF Len(cs) = 0 THEN [ok |-> FALSE, bin |-> bin]
    ELSE LET plain == try_place(bin, rect, Head(cs)[1], Head(cs)[2], FALSE)
             turned == try_place(bin, rect, Head(cs)[1], Head(cs)[2], TRUE)
         IN  IF plain.ok THEN plain
             ELSE IF turned.ok THEN turned
             ELSE PlaceFirst(bin, rect, Tail(cs))

\* a faulty try_place_cp: the corners of the placements are not candidates
try_place_cp_origin_only(bin, rect) == PlaceFirst(bin, rect, << << 0, 0 >> >>)

\* returns [ok, bin]
try_place_cp(bin, rect) ==
    Eval(sorted_candidates(bin), LAMBDA cs : PlaceFirst(bin, rect, cs))

\* a faulty loop: only the box opened last is tried (next fit)
PlaceInLastBox(boxes, rect, k) ==
    IF Len(boxes) = 0 THEN None
    ELSE Eval(try_place_cp(boxes[Len(boxes)], rect), LAMBDA r :
            IF r.ok THEN Some([boxes EXCEPT ![Len(boxes)] = r.bin]) ELSE None)

RECURSIVE PlaceInBoxes(_, _, _)
\* "for bin in self.solution.boxes.iter_mut()" of apply, from bin k on
PlaceInBoxes(boxes, rect, k) ==
    IF k > Len(boxes) THEN None
    ELSE Eval(try_place_cp(boxes[k], rect), LAMBDA r :
            IF r.ok THEN Some([boxes EXCEPT ![k] = r.bin])
            ELSE PlaceInBoxes(boxes, rect, k + 1))

\* remaining_rects after the removal at the first position with the id
RemoveById(rects, rect) ==
    IF \E i \in 1..Len(rects) : rects[i].id = rect.id
    THEN remove(rects, CHOOSE i \in 1..Len(rects) :
                    /\ rects[i].id = rect.id
                    /\ \A j \in 1..(i - 1) : rects[j].id # rect.id)
    ELSE rects

\* a faulty apply: the new box is filled but never pushed
apply_without_push(boxes, remaining, rect, box_size) ==
    LET rest == RemoveById(remaining, rect)
        placed == PlaceInBoxes(boxes, rect, 1)
        new_bin == try_place(BoxBin(box_size), rect, 0, 0, FALSE)
    IN  IF placed # None
        THEN [panic |-> FALSE, boxes |-> placed[1], remaining_rects |-> rest]
        ELSE [panic |-> ~new_bin.ok, boxes |-> boxes, remaining_rects |-> rest]

\* RectangleGreedyState::apply: [panic, boxes, remaining_rects] afterwards
apply(boxes, remaining, rect, box_size) ==
    LET rest == RemoveById(remaining, rect)
        placed == PlaceInBoxes(boxes, rect, 1)
        new_bin == try_place(BoxBin(box_size), rect, 0, 0, FALSE)
    IN  IF placed # None
        THEN [panic |-> FALSE, boxes |-> placed[1], remaining_rects |-> rest]
        ELSE IF ~new_bin.ok
        THEN [panic |-> TRUE, boxes |-> boxes, remaining_rects |-> rest]
        ELSE [panic |-> FALSE, boxes |-> Append(boxes, new_bin.bin), remaining_rects |-> rest]

\* a faulty maximum search: of several maximal elements the first one
FirstMaxIndex(keys) ==
    CHOOSE i \in 1..Len(keys) :
        /\ \A j \in 1..Len(keys) : keys[j] <= keys[i]
        /\ \A j \in 1..(i - 1) : keys[j] < keys[i]

\* Iterator::max_by_key: of several maximal elements the last one is returned
MaxByKeyIndex(keys) ==
    CHOOSE i \in 1..Len(keys) :
        /\ \A j \in 1..Len(keys) : keys[j] <= keys[i]
        /\ \A j \in (i + 1)..Len(keys) : keys[j] < keys[i]

\* SortByAreaStrategy::next_candidate
next_candidate_area(remaining) ==
    IF Len(remaining) = 0 THEN None
    ELSE Some(remaining[MaxByKeyIndex([i \in 1..Len(remaining) |-> area(remaining[i])])])

\* SortByMaxSideStrategy::next_candidate
next_candidate_max_side(remaining) ==
    IF Len(remaining) = 0 THEN None
    ELSE Some(remaining[MaxByKeyIndex(
            [i \in 1..Len(remaining) |-> Max(remaining[i].width, remaining[i].height)])])

(* ------------------------------------------------------------------ *)
(* local_search.rs: the neighborhoods                                   *)
(* ------------------------------------------------------------------ *)
\* a faulty move: the rectangle is pushed but not removed from its source
MoveIntoKeepingSource(boxes, src_idx, p_idx, tgt_idx, placement) ==
    [boxes EXCEPT ![tgt_idx] = PushPlacement(@, placement)]

\* the body of a relocation move on the clone: swap_remove from the source
\* bin, push into the target bin, swap_remove the source bin when empty
MoveInto(boxes, src_idx, p_idx, tgt_idx, placement) ==
    LET taken  == [boxes EXCEPT ![src_idx].placements = swap_remove(@, p_idx)]
        pushed == [taken EXCEPT ![tgt_idx] = PushPlacement(@, placement)]
    IN  IF Len(pushed[src_idx].placements) = 0 THEN swap_remove(pushed, src_idx) ELSE pushed

\* a faulty closure: a rectangle the target does not take goes to a new bin
GeometricMoveOrNewBin(boxes, src_idx, p_idx, tgt_idx) ==
    LET rect == boxes[src_idx].placements[p_idx].rect
        pos  == find_position_in_box(boxes[tgt_idx], rect)
        taken == [boxes EXCEPT ![src_idx].placements = swap_remove(@, p_idx)]
        cleaned == IF Len(taken[src_idx].placements) = 0 THEN swap_remove(taken, src_idx) ELSE taken
    IN  IF src_idx = tgt_idx THEN << >>
        ELSE IF pos # None
        THEN << MoveInto(boxes, src_idx, p_idx, tgt_idx,
                         Placement(rect, pos[1].x, pos[1].y, pos[1].rotated)) >>
        ELSE << Append(cleaned, PushPlacement(BoxBin(boxes[src_idx].capacity),
                                              Placement(rect, 0, 0, FALSE))) >>

\* the filter_map closure of GeometricNeighborhood: no or one neighbor
GeometricMove(boxes, src_idx, p_idx, tgt_idx) ==
    LET rect == boxes[src_idx].placements[p_idx].rect
    IN  IF src_idx = tgt_idx THEN << >>
        ELSE Eval(find_position_in_box(boxes[tgt_idx], rect), LAMBDA pos :
                IF pos # None
                THEN << MoveInto(boxes, src_idx, p_idx, tgt_idx,
                                 Placement(rect, pos[1].x, pos[1].y, pos[1].rotated)) >>
                ELSE << >>)

\* GeometricNeighborhood::neighbors: the neighbors in the order produced
GeometricNeighbors(boxes) ==
    FlatMap(1, Len(boxes), [src_idx \in 1..Len(boxes) |->
        FlatMap(1, Len(boxes[src_idx].placements),
                [p_idx \in 1..Len(boxes[src_idx].placements) |->
            FlatMap(1, Len(boxes), [tgt_idx \in 1..Len(boxes) |->
                GeometricMove(boxes, src_idx, p_idx, tgt_idx)])])])

\* RuleBasedNeighborhood::neighbors with max_swaps = None: every pair i < j
RuleBasedNeighbors(sequence) ==
    IF Len(sequence) < 2 THEN << >>
    ELSE FlatMap(1, Len(sequence), [i \in 1..Len(sequence) |->
            FlatMap(i + 1, Len(sequence),
                    [j \in (i + 1)..Len(sequence) |-> << swap(sequence, i, j) >>])])

\* limit is max_overlap_percent in tenths (see percent below):
\* (intersection / max_area) > limit  iff  10 * intersection > limit * max_area
check_overlap_limit(bin, rect, x, y, rotated, limit) ==
    LET w == IF rotated THEN rect.height ELSE rect.width
        h == IF rotated THEN rect.width ELSE rect.height
        candidate == Placement(rect, x, y, rotated)
    IN  IF x + w > bin.capacity \/ y + h > bin.capacity
        THEN FALSE
        ELSE \A i \in 1..Len(bin.placements) :
                LET intersection == intersection_area(candidate, bin.placements[i])
                    max_area == Max(area(candidate.rect), area(bin.placements[i].rect))
                IN  intersection > 0 => ~(10 * intersection > limit * max_area)

RECURSIVE FindFirstWithOverlap(_, _, _, _)
FindFirstWithOverlap(bin, rect, cs, limit) ==
    IF Len(cs) = 0 THEN None
    ELSE LET x == Head(cs)[1]
             y == Head(cs)[2]
         IN  IF check_overlap_limit(bin, rect, x, y, FALSE, limit)
             THEN Some([x |-> x, y |-> y, rotated |-> FALSE])
             ELSE IF check_overlap_limit(bin, rect, x, y, TRUE, limit)
             THEN Some([x |-> x, y |-> y, rotated |-> TRUE])
             ELSE FindFirstWithOverlap(bin, rect, Tail(cs), limit)

find_position_with_overlap(bin, rect, limit) ==
    Eval(sorted_candidates(bin), LAMBDA cs : FindFirstWithOverlap(bin, rect, cs, limit))

\* the filter_map closure of existing_box_moves
OverlappingMove(boxes, src_idx, p_idx, tgt_idx, limit) ==
    LET rect == boxes[src_idx].placements[p_idx].rect
    IN  IF src_idx = tgt_idx THEN << >>
        ELSE Eval(find_position_with_overlap(boxes[tgt_idx], rect, limit), LAMBDA pos :
                IF pos # None
                THEN << MoveInto(boxes, src_idx, p_idx, tgt_idx,
                                 Placement(rect, pos[1].x, pos[1].y, pos[1].rotated)) >>
                ELSE << >>)

\* the once_with closure new_box_move
NewBoxMove(boxes, src_idx, p_idx, box_size) ==
    LET rect    == boxes[src_idx].placements[p_idx].rect
        taken   == [boxes EXCEPT ![src_idx].placements = swap_remove(@, p_idx)]
        cleaned == IF Len(taken[src_idx].placements) = 0 THEN swap_remove(taken, src_idx) ELSE taken
        new_bin == try_place(BoxBin(box_size), rect, 0, 0, FALSE).bin
    IN  Append(cleaned, new_bin)

\* a faulty chain: the new-box move comes before the existing-box moves
OverlappingNeighborsNewBoxFirst(boxes, limit, box_size) ==
    FlatMap(1, Len(boxes), [src_idx \in 1..Len(boxes) |->
        FlatMap(1, Len(boxes[src_idx].placements),
                [p_idx \in 1..Len(boxes[src_idx].placements) |->
            << NewBoxMove(boxes, src_idx, p_idx, box_size) >>
            \o FlatMap(1, Len(boxes), [tgt_idx \in 1..Len(boxes) |->
                OverlappingMove(boxes, src_idx, p_idx, tgt_idx, limit)])])])

\* OverlappingNeighborhood::neighbors past the penalty check, in the order produced
OverlappingNeighbors(boxes, limit, box_size) ==
    FlatMap(1, Len(boxes), [src_idx \in 1..Len(boxes) |->
        FlatMap(1, Len(boxes[src_idx].placements),
                [p_idx \in 1..Len(boxes[src_idx].placements) |->
            FlatMap(1, Len(boxes), [tgt_idx \in 1..Len(boxes) |->
                OverlappingMove(boxes, src_idx, p_idx, tgt_idx, limit)])
            \o << NewBoxMove(boxes, src_idx, p_idx, box_size) >>])])

(* ------------------------------------------------------------------ *)
(* testing/mod.rs                                                       *)
(* ------------------------------------------------------------------ *)
RECURSIVE TrivialFrom(_, _)
TrivialFrom(rects, box_size) ==
    IF Len(rects) = 0 THEN << >>
    ELSE << try_place(BoxBin(box_size), Head(rects), 0, 0, FALSE).bin >>
         \o TrivialFrom(Tail(rects), box_size)

\* create_trivial_solution: the boxes of the solution, one bin per rectangle
create_trivial_solution(inst) == TrivialFrom(inst.rects, inst.box_size)

(* ------------------------------------------------------------------ *)
(* The state of one run                                                 *)
(* ------------------------------------------------------------------ *)
VARIABLES
    instance,         \* the Instance of the run: [box_size, rects]
    algo,             \* the entry point that was called
    neighborhood,     \* the Neighborhood local_search::solve was given
    boxes,            \* RectangleSolution.boxes (current / state.solution)
    penalty_factor,   \* RectangleSolution.penalty_factor: None or Some(p)
    remaining_rects,  \* RectangleGreedyState.remaining_rects
    sequence,         \* PermutationSolution.sequence (current)
    percent,          \* max_overlap_percent, in tenths (1.0 is 10)
    step,             \* the phases of run_overlapping_ls that are over
    pc,               \* where the run stands
    scan,             \* neighbors examined so far in the round of solve
    last_call         \* the last direct call of a Placement / BoxBin method

vars == << instance, algo, neighborhood, boxes, penalty_factor, remaining_rects,
           sequence, percent, step, pc, scan, last_call >>

\* Generator::generate_instance: ids 0..n-1, sides within the box
GeneratedInstances ==
    UNION {{[box_size |-> L, rects |-> [i \in 1..n |-> Rect(i - 1, d[i][1], d[i][2])]] :
                d \in [1..n -> Sides \X Sides]} : n \in 1..MaxRects, L \in BoxSizes}

\* Instance::new(10, [(4,6), (6,4)]): the two rectangles are each other's rotation
RotationScenario == [box_size |-> 10, rects |-> << Rect(0, 4, 6), Rect(1, 6, 4) >>]

\* further instances built with Instance::new: full-box rectangles, small
\* rectangles in a large box, four rectangles that need rotation, a small
\* rectangle that fits beside either of two large ones, and one whose second
\* rectangle is wider than the box (Instance::new checks nothing)
ScenarioInstances ==
    { [box_size |-> 10, rects |-> << Rect(0, 10, 10), Rect(1, 10, 10), Rect(2, 10, 10) >>],
      RotationScenario,
      [box_size |-> 100, rects |-> << Rect(0, 1, 1), Rect(1, 1, 1) >>],
      [box_size |-> 4, rects |-> << Rect(0, 4, 2), Rect(1, 2, 4), Rect(2, 2, 2), Rect(3, 1, 4) >>],
      [box_size |-> 4, rects |-> << Rect(0, 3, 3), Rect(1, 3, 3), Rect(2, 1, 1) >>],
      [box_size |-> 2, rects |-> << Rect(0, 1, 1), Rect(1, 3, 1) >>] }

Instances == GeneratedInstances \cup ScenarioInstances

\* the assertion of generate_instance: every side within the box
ValidInstance(inst) ==
    \A i \in 1..Len(inst.rects) :
        inst.rects[i].width <= inst.box_size /\ inst.rects[i].height <= inst.box_size

GreedyAlgos == {"greedy_area", "greedy_max_side"}

\* rects_perm.shuffle(): any order of the rectangles
Shuffles(rects) ==
    {[i \in 1..Len(rects) |-> rects[f[i]]] : f \in Permutations(1..Len(rects))}

InitGreedy ==
    /\ algo \in GreedyAlgos
    /\ neighborhood = "none"
    /\ boxes = << >>
    /\ penalty_factor = None
    /\ remaining_rects = instance.rects
    /\ sequence = << >>
    /\ percent = 0
    /\ pc = "greedy"

InitGeometric ==
    /\ algo = "ls_geometric"
    /\ neighborhood = "geometric"
    /\ boxes = create_trivial_solution(instance)
    /\ penalty_factor = None
    /\ remaining_rects = << >>
    /\ sequence = << >>
    /\ percent = 0
    /\ pc = "ls"

InitRuleBased ==
    /\ algo = "ls_rule_based"
    /\ neighborhood = "rule_based"
    /\ boxes = << >>
    /\ penalty_factor = None
    /\ remaining_rects = << >>
    /\ sequence \in Shuffles(instance.rects)
    /\ percent = 0
    /\ pc = "ls"

\* solve called with an OverlappingNeighborhood on a solution as constructed
InitOverlapping ==
    /\ algo = "ls_overlapping"
    /\ neighborhood = "overlapping"
    /\ boxes = create_trivial_solution(instance)
    /\ penalty_factor = None
    /\ remaining_rects = << >>
    /\ sequence = << >>
    /\ percent \in {0, 10}
    /\ pc = "ls"

\* run_overlapping_ls up to the first call of solve
InitAnnealing ==
    /\ algo = "run_overlapping_ls"
    /\ neighborhood = "overlapping"
    /\ boxes = create_trivial_solution(instance)
    /\ penalty_factor = Some(InitialPenalty)
    /\ remaining_rects = << >>
    /\ sequence = << >>
    /\ percent = 10
    /\ pc = "ls"

NoCall == [op |-> "none"]

Init ==
    /\ instance \in Instances
    /\ step = 0
    /\ scan = 0
    /\ last_call = NoCall
    /\ \/ InitGreedy
       \/ InitGeometric
       \/ InitRuleBased
       \/ InitOverlapping
       \/ InitAnnealing

(* ------------------------------------------------------------------ *)
(* algorithms/greedy.rs: solve                                          *)
(* ------------------------------------------------------------------ *)
next_candidate(strategy, remaining) ==
    IF strategy = "greedy_area" THEN next_candidate_area(remaining)
    ELSE next_candidate_max_side(remaining)

\* one iteration of the while loop with a candidate: problem.apply(candidate)
GreedyApply ==
    /\ pc = "greedy"
    /\ Len(remaining_rects) # 0
    /\ next_candidate(algo, remaining_rects) # None
    /\ LET r == apply(boxes, remaining_rects, next_candidate(algo, remaining_rects)[1],
                      instance.box_size)
       IN  /\ ~r.panic
           /\ boxes' = r.boxes
           /\ remaining_rects' = r.remaining_rects
    /\ UNCHANGED << instance, algo, neighborhood, penalty_factor, sequence, percent,
                    step, pc, scan, last_call >>

\* the iteration whose apply panics: the new box does not take the rectangle
GreedyPanic ==
    /\ pc = "greedy"
    /\ Len(remaining_rects) # 0
    /\ next_candidate(algo, remaining_rects) # None
    /\ LET r == apply(boxes, remaining_rects, next_candidate(algo, remaining_rects)[1],
                      instance.box_size)
       IN  /\ r.panic
           /\ remaining_rects' = r.remaining_rects
    /\ pc' = "panic"
    /\ UNCHANGED << instance, algo, neighborhood, boxes, penalty_factor, sequence,
                    percent, step, scan, last_call >>

\* the loop ends: is_finished(), or the strategy has no candidate (break)
GreedyFinish ==
    /\ pc = "greedy"
    /\ Len(remaining_rects) = 0 \/ next_candidate(algo, remaining_rects) = None
    /\ pc' = "done"
    /\ UNCHANGED << instance, algo, neighborhood, boxes, penalty_factor, remaining_rects,
                    sequence, percent, step, scan, last_call >>

(* ------------------------------------------------------------------ *)
(* algorithms/local_search.rs: solve                                    *)
(* ------------------------------------------------------------------ *)
\* the solution a neighborhood works on: the sequence or the boxes
Current == IF neighborhood = "rule_based" THEN sequence ELSE boxes

\* current.cost() and neighbor.cost()
CostOf(sol) ==
    IF neighborhood = "rule_based" THEN perm_cost(sol, instance.box_size)
    ELSE cost(sol, penalty_factor, instance.box_size)

\* a faulty neighbors(): the penalty check is left out
NeverPanics == FALSE

\* "Penalty factor for Overlapping Neighborhood not set."
NeighborsPanics == neighborhood = "overlapping" /\ penalty_factor = None

\* neighborhood.neighbors(&current), as the sequence the iterator yields
Neighbors ==
    IF neighborhood = "geometric" THEN GeometricNeighbors(boxes)
    ELSE IF neighborhood = "rule_based" THEN RuleBasedNeighbors(sequence)
    ELSE OverlappingNeighbors(boxes, percent, instance.box_size)

\* if neighbor.cost() < current_cost
Improves(neighbor, current) == CostLess(CostOf(neighbor), CostOf(current))

\* neighbors() panics at the start of a round
LSPanic ==
    /\ pc = "ls"
    /\ NeighborsPanics
    /\ pc' = "panic"
    /\ UNCHANGED << instance, algo, neighborhood, boxes, penalty_factor, remaining_rects,
                    sequence, percent, step, scan, last_call >>

\* one iteration of the for loop: the neighbor does not improve
LSExamine ==
    /\ pc = "ls"
    /\ ~NeighborsPanics
    /\ \E ns \in {Neighbors} :
          /\ scan < Len(ns)
          /\ ~Improves(ns[scan + 1], Current)
    /\ scan' = scan + 1
    /\ UNCHANGED << instance, algo, neighborhood, boxes, penalty_factor, remaining_rects,
                    sequence, percent, step, pc, last_call >>

\* the iteration that breaks: current = improvement, and the next round starts
LSAdopt ==
    /\ pc = "ls"
    /\ ~NeighborsPanics
    /\ \E ns \in {Neighbors} :
          /\ scan < Len(ns)
          /\ Improves(ns[scan + 1], Current)
          /\ IF neighborhood = "rule_based"
             THEN sequence' = ns[scan + 1] /\ boxes' = boxes
             ELSE boxes' = ns[scan + 1] /\ sequence' = sequence
    /\ scan' = 0
    /\ UNCHANGED << instance, algo, neighborhood, penalty_factor, remaining_rects,
                    percent, step, pc, last_call >>

\* a faulty solve: it may return once the first neighbor did not improve
LSReturnEarly ==
    /\ pc = "ls"
    /\ ~NeighborsPanics
    /\ scan = Len(Neighbors) \/ scan >= 1
    /\ pc' = IF algo = "run_overlapping_ls" /\ neighborhood = "overlapping"
             THEN "returned" ELSE "done"
    /\ UNCHANGED << instance, algo, neighborhood, boxes, penalty_factor, remaining_rects,
                    sequence, percent, step, scan, last_call >>

\* the for loop ran out with improved_solution = None: solve returns current
LSReturn ==
    /\ pc = "ls"
    /\ ~NeighborsPanics
    /\ scan = Len(Neighbors)
    /\ pc' = IF algo = "run_overlapping_ls" /\ neighborhood = "overlapping"
             THEN "returned" ELSE "done"
    /\ UNCHANGED << instance, algo, neighborhood, boxes, penalty_factor, remaining_rects,
                    sequence, percent, step, scan, last_call >>

(* ------------------------------------------------------------------ *)
(* testing/mod.rs: run_overlapping_ls                                   *)
(* ------------------------------------------------------------------ *)
\* after solve in the loop body: tighten percent, raise the penalty; then
\* the next phase's solve starts, or the loop is over
Tighten ==
    /\ pc = "returned"
    /\ step < Steps
    /\ percent' = IF percent - 1 < 0 THEN 0 ELSE percent - 1
    /\ penalty_factor' = IF penalty_factor # None
                         THEN Some(penalty_factor[1] * PenaltyGrowth) ELSE penalty_factor
    /\ step' = step + 1
    /\ scan' = 0
    /\ pc' = IF step + 1 < Steps THEN "ls" ELSE "closing"
    /\ UNCHANGED << instance, algo, neighborhood, boxes, remaining_rects, sequence, last_call >>

\* strict_sol.penalty_factor = None; solve(strict_sol, &GeometricNeighborhood)
ClosingPass ==
    /\ pc = "closing"
    /\ penalty_factor' = None
    /\ neighborhood' = "geometric"
    /\ scan' = 0
    /\ pc' = "ls"
    /\ UNCHANGED << instance, algo, boxes, remaining_rects, sequence, percent, step, last_call >>

Next ==
    \/ GreedyApply
    \/ GreedyPanic
    \/ GreedyFinish
    \/ LSPanic
    \/ LSExamine
    \/ LSAdopt
    \/ LSReturn
    \/ Tighten
    \/ ClosingPass

Spec == Init /\ [][Next]_vars

\* solve and the drivers run on: no step that can be taken is put off forever
FairSpec == Spec /\ WF_vars(Next)

(* ------------------------------------------------------------------ *)
(* Direct calls of BoxBin::try_place on one bin                         *)
(* ------------------------------------------------------------------ *)
\* the capacity of the bin and the arguments the calls are drawn from
BinCapacities == {2}
BinCoords == 0..1
BinRects == {Rect(0, w, h) : w \in Sides, h \in Sides}

InitBin ==
    /\ instance \in {[box_size |-> L, rects |-> << >>] : L \in BinCapacities}
    /\ algo = "try_place"
    /\ neighborhood = "none"
    /\ boxes = << BoxBin(instance.box_size) >>
    /\ penalty_factor = None
    /\ remaining_rects = << >>
    /\ sequence = << >>
    /\ percent = 0
    /\ step = 0
    /\ scan = 0
    /\ pc = "calls"
    /\ last_call = NoCall

\* bin.try_place(rect, x, y, rotated) on the bin boxes[1]
TryPlaceCall ==
    /\ pc = "calls"
    /\ Len(boxes[1].placements) < MaxPlacements
    /\ \E rect \in BinRects, x \in BinCoords, y \in BinCoords, rotated \in BOOLEAN :
          LET r == try_place(boxes[1], rect, x, y, rotated)
          IN  /\ boxes' = << r.bin >>
              /\ last_call' = [op |-> "try_place", arg |-> Placement(rect, x, y, rotated),
                               ret |-> r.ok]
    /\ UNCHANGED << instance, algo, neighborhood, penalty_factor, remaining_rects,
                    sequence, percent, step, pc, scan >>

NextBin == TryPlaceCall

SpecBin == InitBin /\ [][NextBin]_vars

(* ------------------------------------------------------------------ *)
(* Direct calls of the two placement searches on one bin                *)
(* ------------------------------------------------------------------ *)
\* bin.find_position_in_box(rect) and try_place_cp(&mut bin, rect) on the
\* bin boxes[1]; try_place_cp leaves its placement in the bin
SearchCall ==
    /\ pc = "calls"
    /\ Len(boxes[1].placements) < MaxPlacements
    /\ \E rect \in BinRects :
          \E found \in {find_position_in_box(boxes[1], rect)},
             placed \in {try_place_cp(boxes[1], rect)} :
              /\ boxes' = << placed.bin >>
              /\ last_call' = [op |-> "search", bin |-> boxes[1], rect |-> rect,
                               found |-> found, placed |-> placed]
    /\ UNCHANGED << instance, algo, neighborhood, penalty_factor, remaining_rects,
                    sequence, percent, step, pc, scan >>

NextSearch == TryPlaceCall \/ SearchCall

SpecSearch == InitBin /\ [][NextSearch]_vars

(* ------------------------------------------------------------------ *)
(* Direct calls of Placement::intersects and ::intersection_area        *)
(* ------------------------------------------------------------------ *)
\* the placements the calls are drawn from: positive sides
PairCoords == 0..2
PairPlacements ==
    {Placement(Rect(0, w, h), x, y, t) :
        w \in Sides, h \in Sides, x \in PairCoords, y \in PairCoords, t \in BOOLEAN}

InitPlacement ==
    /\ instance \in {[box_size |-> L, rects |-> << >>] : L \in BoxSizes}
    /\ algo = "intersection"
    /\ neighborhood = "none"
    /\ boxes = << >>
    /\ penalty_factor = None
    /\ remaining_rects = << >>
    /\ sequence = << >>
    /\ percent = 0
    /\ step = 0
    /\ scan = 0
    /\ pc = "calls"
    /\ \E a \in PairPlacements, b \in PairPlacements :
          last_call = [op |-> "args", a |-> a, b |-> b]

\* a.intersects(&b), a.intersection_area(&b) and b.intersection_area(&a)
IntersectionCall ==
    /\ pc = "calls"
    /\ last_call.op = "args"
    /\ last_call' = [op |-> "intersection", a |-> last_call.a, b |-> last_call.b,
                     intersects |-> intersects(last_call.a, last_call.b),
                     area_ab |-> intersection_area(last_call.a, last_call.b),
                     area_ba |-> intersection_area(last_call.b, last_call.a)]
    /\ UNCHANGED << instance, algo, neighborhood, boxes, penalty_factor, remaining_rects,
                    sequence, percent, step, pc, scan >>

NextPlacement == IntersectionCall

SpecPlacement == InitPlacement /\ [][NextPlacement]_vars

(* ------------------------------------------------------------------ *)
(* Properties                                                           *)
(* ------------------------------------------------------------------ *)
\* the (bin, index) pairs of the placements of a rectangle
PlacesOf(rect, bs) ==
    {bi \in UNION {{<< b, i >> : i \in 1..Len(bs[b].placements)} : b \in 1..Len(bs)} :
        bs[bi[1]].placements[bi[2]].rect = rect}

NumPlacements(bs) == Sum(1, Len(bs), [b \in 1..Len(bs) |-> Len(bs[b].placements)])

DistinctIds(inst) ==
    \A i, j \in 1..Len(inst.rects) : inst.rects[i].id = inst.rects[j].id => i = j

\* lexicographic "strictly less" on cost pairs, written out
StrictlyLess(a, b) == a[1] < b[1] \/ (a[1] = b[1] /\ a[2] < b[2])

\* the extent of a placement lies within the bin
InBounds(p, bin) ==
    /\ p.x + (IF p.rotated THEN p.rect.height ELSE p.rect.width) <= bin.capacity
    /\ p.y + (IF p.rotated THEN p.rect.width ELSE p.rect.height) <= bin.capacity

\* C1: greedy on an instance with distinct ids and sides within the box
\* does not panic and ends with remaining_rects empty and every rectangle
\* of the instance in exactly one placement, none extra.
C1_GreedyCoverage ==
    (algo \in GreedyAlgos /\ ValidInstance(instance) /\ DistinctIds(instance)) =>
        /\ pc # "panic"
        /\ pc = "done" =>
              /\ Len(remaining_rects) = 0
              /\ \A i \in 1..Len(instance.rects) :
                    Cardinality(PlacesOf(instance.rects[i], boxes)) = 1
              /\ NumPlacements(boxes) = Len(instance.rects)

C1_Witness ==
    /\ algo \in GreedyAlgos
    /\ pc = "done"
    /\ ValidInstance(instance)
    /\ Len(instance.rects) >= 3
    /\ Len(boxes) >= 2
    /\ \E b \in 1..Len(boxes) : Len(boxes[b].placements) >= 2

\* C2: in greedy and in geometric local search from the trivial solution,
\* in every state no two placements of a bin intersect and every placement
\* lies within the capacity on both axes.
C2_NoOverlapInBounds ==
    algo \in GreedyAlgos \cup {"ls_geometric"} =>
        \A b \in 1..Len(boxes) :
            /\ \A i \in 1..Len(boxes[b].placements) :
                  InBounds(boxes[b].placements[i], boxes[b])
            /\ \A i, j \in 1..Len(boxes[b].placements) :
                  i # j => /\ ~intersects(boxes[b].placements[i], boxes[b].placements[j])
                           /\ intersection_area(boxes[b].placements[i],
                                                boxes[b].placements[j]) = 0

C2_Witness ==
    /\ algo = "ls_geometric"
    /\ pc = "done"
    /\ \E b \in 1..Len(boxes) :
          /\ Len(boxes[b].placements) >= 2
          /\ \E i \in 1..Len(boxes[b].placements) : boxes[b].placements[i].rotated

\* C3: the solution run_overlapping_ls returns has no two placements of a
\* bin with a positive intersection area.
C3_NoOverlapAtEnd ==
    (algo = "run_overlapping_ls" /\ pc = "done") =>
        \A b \in 1..Len(boxes) :
            \A i, j \in 1..Len(boxes[b].placements) :
                i # j => intersection_area(boxes[b].placements[i], boxes[b].placements[j]) = 0

\* C4: with the geometric neighborhood and no penalty factor, no neighbor
\* has more bins than its origin, and every adopted state has at most the
\* bins of its predecessor and a strictly smaller (bins, -squares) cost.
C4_GeometricMonotone ==
    [][(pc = "ls" /\ neighborhood = "geometric" /\ penalty_factor = None) =>
          /\ \A ns \in {GeometricNeighbors(boxes)} :
                \A k \in 1..Len(ns) : Len(ns[k]) <= Len(boxes)
          /\ boxes' # boxes =>
                /\ Len(boxes') <= Len(boxes)
                /\ StrictlyLess(cost(boxes', None, instance.box_size),
                                cost(boxes, None, instance.box_size))]_vars

C4_Witness ==
    /\ algo = "ls_geometric"
    /\ pc = "ls"
    /\ Len(boxes) < Len(instance.rects)
    /\ Len(boxes) >= 2
    /\ Len(GeometricNeighbors(boxes)) >= 1

\* C5: a round of solve adopts the first neighbor, in the order produced,
\* whose cost is strictly less than the current cost, having examined only
\* the neighbors before it; the scan never passes an improving neighbor.
C5_FirstImprovement ==
    [][(pc = "ls" /\ pc' = "ls" /\ ~NeighborsPanics) =>
          \A ns \in {Neighbors} :
            /\ (boxes' # boxes \/ sequence' # sequence) =>
                  /\ scan < Len(ns)
                  /\ (IF neighborhood = "rule_based" THEN sequence' ELSE boxes') = ns[scan + 1]
                  /\ StrictlyLess(CostOf(ns[scan + 1]), CostOf(Current))
                  /\ \A k \in 1..scan : ~StrictlyLess(CostOf(ns[k]), CostOf(Current))
                  /\ scan' = 0
            /\ scan' = scan + 1 =>
                  \A k \in 1..scan' : ~StrictlyLess(CostOf(ns[k]), CostOf(Current))
            /\ scan' = scan \/ scan' = scan + 1 \/ scan' = 0]_vars

C5_Witness ==
    /\ pc = "ls"
    /\ ~NeighborsPanics
    /\ scan >= 1
    /\ \E ns \in {Neighbors} :
          /\ scan + 2 <= Len(ns)
          /\ StrictlyLess(CostOf(ns[scan + 1]), CostOf(Current))
          /\ StrictlyLess(CostOf(ns[scan + 2]), CostOf(ns[scan + 1]))

\* the returned solution has no neighbor of strictly smaller cost
LocalOptimum ==
    \A ns \in {Neighbors} :
        \A k \in 1..Len(ns) : ~StrictlyLess(CostOf(ns[k]), CostOf(Current))

\* C6: every call of solve with a deterministic neighborhood returns, and
\* the solution it returns has no neighbor of strictly smaller cost.
C6_TerminatesAtLocalOptimum ==
    /\ (pc = "ls" /\ ~NeighborsPanics) ~> (pc \in {"returned", "done"})
    /\ []((pc \in {"returned", "done"} /\ algo \notin GreedyAlgos) => LocalOptimum)

C6_Witness ==
    /\ pc = "returned"
    /\ step >= 3
    /\ Len(boxes) >= 2
    /\ Len(Neighbors) >= 3

\* C7: try_place returns false and leaves the placements as they are when
\* the effective extent exceeds the capacity or the new placement intersects
\* an existing one; otherwise it returns true and appends the placement.
C7_TryPlace ==
    [][(last_call'.op = "try_place" /\ (last_call' # last_call \/ boxes' # boxes)) =>
          LET p   == last_call'.arg
              bin == boxes[1]
          IN  IF \/ ~InBounds(p, bin)
                 \/ \E i \in 1..Len(bin.placements) : intersects(p, bin.placements[i])
              THEN last_call'.ret = FALSE /\ boxes'[1].placements = bin.placements
              ELSE last_call'.ret = TRUE
                   /\ boxes'[1].placements = bin.placements \o << p >>]_vars

C7_Witness ==
    /\ last_call.op = "try_place"
    /\ last_call.ret = FALSE
    /\ Len(boxes[1].placements) = 2
    /\ InBounds(last_call.arg, boxes[1])

\* C8: intersection_area is symmetric, and it is 0 exactly when intersects
\* is false (placements of positive sides; touching ones do not intersect).
C8_IntersectionArea ==
    last_call.op = "intersection" =>
        /\ last_call.area_ab = last_call.area_ba
        /\ (last_call.area_ab = 0) <=> ~last_call.intersects

C8_Witness ==
    /\ last_call.op = "intersection"
    /\ last_call.a.x + (IF last_call.a.rotated THEN last_call.a.rect.height
                        ELSE last_call.a.rect.width) = last_call.b.x
    /\ last_call.a.y = last_call.b.y
    /\ ~last_call.intersects
    /\ last_call.area_ab = 0

\* C9: solve with an OverlappingNeighborhood on a solution without penalty
\* factor panics before a neighbor is produced and never returns.
C9_PanicsWithoutPenalty ==
    algo = "ls_overlapping" =>
        /\ pc \in {"ls", "panic"}
        /\ scan = 0
        /\ boxes = create_trivial_solution(instance)

C9_Witness == algo = "ls_overlapping" /\ pc = "panic" /\ Len(boxes) >= 2

\* C10 as stated: greedy on the scenario ends with both rectangles in one
\* bin without overlap, and at least one placement is rotated.
C10_OneBinWithRotation ==
    (instance = RotationScenario /\ algo \in GreedyAlgos /\ pc = "done") =>
        /\ Len(boxes) = 1
        /\ Len(boxes[1].placements) = 2
        /\ ~intersects(boxes[1].placements[1], boxes[1].placements[2])
        /\ \E i \in 1..2 : boxes[1].placements[i].rotated

\* C10 amended: greedy on the scenario ends with both rectangles in one bin,
\* within the capacity and without overlap, and neither placement rotated.
C10_OneBinNoRotation ==
    (instance = RotationScenario /\ algo \in GreedyAlgos /\ pc = "done") =>
        /\ Len(boxes) = 1
        /\ Len(boxes[1].placements) = 2
        /\ ~intersects(boxes[1].placements[1], boxes[1].placements[2])
        /\ \A i \in 1..2 : /\ ~boxes[1].placements[i].rotated
                           /\ InBounds(boxes[1].placements[i], boxes[1])

C10_Witness == instance = RotationScenario /\ algo \in GreedyAlgos /\ pc = "done"

\* the key a strategy maximises: the area, or the longer side
SelectionKey(strategy, r) ==
    IF strategy = "greedy_area" THEN r.width * r.height
    ELSE IF r.width >= r.height THEN r.width ELSE r.height

\* position i of remaining_rects holds a rectangle of maximum key
IsMaximum(i) ==
    \A j \in 1..Len(remaining_rects) :
        SelectionKey(algo, remaining_rects[j]) <= SelectionKey(algo, remaining_rects[i])

\* C11 as stated: each strategy returns a remaining rectangle of maximum
\* key, of several maximal ones the first occurrence in remaining_rects,
\* and nothing only when remaining_rects is empty.
C11_FirstOccurrence ==
    (algo \in GreedyAlgos /\ pc = "greedy") =>
        \A c \in {next_candidate(algo, remaining_rects)} :
            /\ (c = None) <=> (Len(remaining_rects) = 0)
            /\ c # None =>
                  \E i \in 1..Len(remaining_rects) :
                      /\ remaining_rects[i] = c[1]
                      /\ IsMaximum(i)
                      /\ \A j \in 1..(i - 1) : ~IsMaximum(j)

\* C11 amended: each strategy returns a remaining rectangle of maximum key,
\* of several maximal ones the last occurrence in remaining_rects, and
\* nothing only when remaining_rects is empty.
C11_LastOccurrence ==
    (algo \in GreedyAlgos /\ pc = "greedy") =>
        \A c \in {next_candidate(algo, remaining_rects)} :
            /\ (c = None) <=> (Len(remaining_rects) = 0)
            /\ c # None =>
                  \E i \in 1..Len(remaining_rects) :
                      /\ remaining_rects[i] = c[1]
                      /\ IsMaximum(i)
                      /\ \A j \in (i + 1)..Len(remaining_rects) : ~IsMaximum(j)

\* a greedy run under way whose next selection has several maximal rectangles
C11_Witness ==
    /\ algo \in GreedyAlgos
    /\ pc = "greedy"
    /\ Len(boxes) >= 1
    /\ \E i, j \in 1..Len(remaining_rects) : i < j /\ IsMaximum(i) /\ IsMaximum(j)

\* the density term of the penalty branch: minus the squared used areas
DensityTerm(bs) ==
    0 - Sum(1, Len(bs), [b \in 1..Len(bs) |-> used_area(bs[b]) * used_area(bs[b])])

\* the solution held in a state of the overlap search of run_overlapping_ls
InOverlapSearch ==
    /\ algo = "run_overlapping_ls"
    /\ neighborhood = "overlapping"
    /\ penalty_factor # None
    /\ pc \in {"ls", "returned"}

\* C12: with a penalty factor set the first component of the cost is 0 and
\* the box weight exceeds the absolute value of the density term; and of two
\* successive solutions of the overlap search, compared under one penalty
\* factor, the one with fewer bins has the strictly lower cost.
C12_BoxWeightDominates ==
    /\ [](InOverlapSearch =>
            /\ cost(boxes, penalty_factor, instance.box_size)[1] = 0
            /\ box_weight(instance.box_size) > 0 - DensityTerm(boxes))
    /\ [][(InOverlapSearch /\ pc = "ls" /\ pc' = "ls" /\ boxes' # boxes) =>
            /\ Len(boxes') < Len(boxes) =>
                  StrictlyLess(cost(boxes', penalty_factor, instance.box_size),
                               cost(boxes, penalty_factor, instance.box_size))
            /\ Len(boxes) < Len(boxes') =>
                  StrictlyLess(cost(boxes, penalty_factor, instance.box_size),
                               cost(boxes', penalty_factor, instance.box_size))]_vars

\* C13: in every state of a phase of run_overlapping_ls with tolerance
\* percent (in tenths), the state carried over from the previous phase
\* included, every two placements of a bin overlap by at most that share of
\* the larger of their areas.
C13_OverlapWithinTolerance ==
    (InOverlapSearch /\ pc = "ls") =>
        \A b \in 1..Len(boxes) :
            \A i, j \in 1..Len(boxes[b].placements) :
                i # j =>
                    10 * intersection_area(boxes[b].placements[i], boxes[b].placements[j])
                        <= percent * Max(area(boxes[b].placements[i].rect),
                                         area(boxes[b].placements[j].rect))

\* the bin has a candidate anchor where the rectangle, in one of its two
\* orientations, lies within the capacity and intersects no placement
Accepts(bin, rect) ==
    \E c \in candidates(bin), t \in BOOLEAN :
        /\ InBounds(Placement(rect, c[1], c[2], t), bin)
        /\ \A i \in 1..Len(bin.placements) :
              ~intersects(Placement(rect, c[1], c[2], t), bin.placements[i])

\* C14: apply puts the rectangle into the lowest-index bin that accepts it
\* and leaves every other bin as it is; it appends a new bin holding the
\* rectangle unrotated at (0,0) exactly when no bin accepts it; no bin is
\* removed or moved.
C14_FirstFit ==
    [][(algo \in GreedyAlgos /\ pc = "greedy" /\ pc' = "greedy"
            /\ remaining_rects' # remaining_rects) =>
          \A r \in 1..Len(remaining_rects) :
            remaining_rects' = remove(remaining_rects, r) =>
              \A acc \in {{b \in 1..Len(boxes) : Accepts(boxes[b], remaining_rects[r])}} :
                IF acc # {}
                THEN \E k \in acc :
                        /\ \A b \in acc : k <= b
                        /\ Len(boxes') = Len(boxes)
                        /\ \A b \in 1..Len(boxes) : b # k => boxes'[b] = boxes[b]
                        /\ Len(boxes'[k].placements) = Len(boxes[k].placements) + 1
                        /\ SubSeq(boxes'[k].placements, 1, Len(boxes[k].placements))
                              = boxes[k].placements
                        /\ boxes'[k].placements[Len(boxes'[k].placements)].rect
                              = remaining_rects[r]
                ELSE boxes' = boxes \o
                        << [capacity |-> instance.box_size,
                            placements |-> << Placement(remaining_rects[r], 0, 0, FALSE) >>] >>]_vars

\* the rectangle placed last went into the first bin although the second
\* bin would have accepted it as well
C14_Witness ==
    /\ algo \in GreedyAlgos
    /\ pc = "done"
    /\ Len(boxes) = 2
    /\ Len(boxes[1].placements) = 2
    /\ Len(boxes[2].placements) = 1
    /\ Accepts(boxes[2], boxes[1].placements[2].rect)

\* the candidate anchors of a bin, written out: the origin, and the right
\* and the upper corner of every placement with both coordinates < capacity
Anchors(bin) ==
    {<< 0, 0 >>} \cup
    {c \in UNION {{<< bin.placements[i].x
                         + (IF bin.placements[i].rotated THEN bin.placements[i].rect.height
                            ELSE bin.placements[i].rect.width),
                       bin.placements[i].y >>,
                    << bin.placements[i].x,
                       bin.placements[i].y
                         + (IF bin.placements[i].rotated THEN bin.placements[i].rect.width
                            ELSE bin.placements[i].rect.height) >>} :
                   i \in 1..Len(bin.placements)} :
        c[1] < bin.capacity /\ c[2] < bin.capacity}

\* the rectangle at anchor c in orientation t lies within the bin and
\* intersects none of its placements
Feasible(bin, rect, c, t) ==
    /\ InBounds(Placement(rect, c[1], c[2], t), bin)
    /\ \A i \in 1..Len(bin.placements) :
          ~intersects(Placement(rect, c[1], c[2], t), bin.placements[i])

\* C15: try_place_cp and find_position_in_box choose the same result: the
\* feasible anchor smallest by (y, x) among the origin and the corners with
\* both coordinates < capacity, unrotated whenever that is feasible there,
\* and try_place_cp fails exactly when find_position_in_box returns nothing.
C15_SameSearch ==
    last_call.op = "search" =>
        \A bin \in {last_call.bin}, rect \in {last_call.rect} :
            /\ last_call.placed.ok <=> (last_call.found # None)
            /\ (last_call.found # None)
                  <=> (\E c \in Anchors(bin), t \in BOOLEAN : Feasible(bin, rect, c, t))
            /\ ~last_call.placed.ok => last_call.placed.bin = bin
            /\ last_call.found # None =>
                  \A pos \in {last_call.found[1]} :
                      /\ last_call.placed.bin.placements
                            = bin.placements \o << Placement(rect, pos.x, pos.y, pos.rotated) >>
                      /\ << pos.x, pos.y >> \in Anchors(bin)
                      /\ Feasible(bin, rect, << pos.x, pos.y >>, pos.rotated)
                      /\ pos.rotated <=> ~Feasible(bin, rect, << pos.x, pos.y >>, FALSE)
                      /\ \A c \in Anchors(bin) :
                            (\E t \in BOOLEAN : Feasible(bin, rect, c, t)) =>
                                \/ pos.y < c[2]
                                \/ pos.y = c[2] /\ pos.x <= c[1]

\* a search that passed over the origin and chose a later anchor, rotated
C15_Witness ==
    /\ last_call.op = "search"
    /\ last_call.placed.ok
    /\ last_call.found # None
    /\ last_call.found[1].rotated
    /\ << last_call.found[1].x, last_call.found[1].y >> # << 0, 0 >>
    /\ Cardinality(Anchors(last_call.bin)) >= 2

\* the placements of a solution in the order the neighborhoods visit them
Sources(bs) ==
    FlatMap(1, Len(bs), [b \in 1..Len(bs) |->
        [i \in 1..Len(bs[b].placements) |-> << b, i >>]])

\* the bin has an anchor where the rectangle lies within the capacity and
\* overlaps every placement by at most limit tenths of the larger area
Admits(bin, rect, limit) ==
    \E c \in Anchors(bin), t \in BOOLEAN :
        /\ InBounds(Placement(rect, c[1], c[2], t), bin)
        /\ \A i \in 1..Len(bin.placements) :
              10 * intersection_area(Placement(rect, c[1], c[2], t), bin.placements[i])
                <= limit * Max(area(rect), area(bin.placements[i].rect))

\* the other bins that admit the placement's rectangle, in ascending order
Targets(bs, src, limit) ==
    FlatMap(1, Len(bs), [tgt \in 1..Len(bs) |->
        IF tgt # src[1] /\ Admits(bs[tgt], bs[src[1]].placements[src[2]].rect, limit)
        THEN << tgt >> ELSE << >>])

\* C16: the neighbor sequence of the overlapping neighborhood consists of
\* one block per placement, in order; a block holds the relocations of the
\* rectangle into the admitting other bins in ascending target index, and
\* after all of them the neighbor with a new last bin holding only that
\* rectangle unrotated at (0,0).
C16_NewBinLast ==
    (InOverlapSearch /\ pc = "ls" /\ ValidInstance(instance)) =>
        \A ns \in {Neighbors}, srcs \in {Sources(boxes)} :
          \A tg \in {[k \in 1..Len(srcs) |-> Targets(boxes, srcs[k], percent)]} :
            /\ Len(ns) = Sum(1, Len(srcs), [k \in 1..Len(srcs) |-> Len(tg[k]) + 1])
            /\ \A k \in 1..Len(srcs) :
                  \A start \in {Sum(1, k - 1, [m \in 1..(k - 1) |-> Len(tg[m]) + 1])},
                     rect \in {boxes[srcs[k][1]].placements[srcs[k][2]].rect} :
                      /\ \A j \in 1..Len(tg[k]) :
                            \E b \in 1..Len(ns[start + j]) :
                                \A moved \in {ns[start + j][b].placements} :
                                    /\ Len(moved) = Len(boxes[tg[k][j]].placements) + 1
                                    /\ SubSeq(moved, 1, Len(moved) - 1)
                                          = boxes[tg[k][j]].placements
                                    /\ moved[Len(moved)].rect = rect
                      /\ \A last \in {ns[start + Len(tg[k]) + 1]} :
                            last[Len(last)] =
                                [capacity |-> instance.box_size,
                                 placements |-> << Placement(rect, 0, 0, FALSE) >>]

\* a placement that two other bins admit, in a solution of three bins or more
C16_Witness ==
    /\ InOverlapSearch
    /\ pc = "ls"
    /\ ValidInstance(instance)
    /\ Len(boxes) >= 3
    /\ step >= 1
    /\ \E k \in 1..Len(Sources(boxes)) :
          Len(Targets(boxes, Sources(boxes)[k], percent)) >= 2

\* every rectangle of the instance is in exactly one placement, none extra
ExactlyOnce(bs) ==
    /\ \A i \in 1..Len(instance.rects) : Cardinality(PlacesOf(instance.rects[i], bs)) = 1
    /\ NumPlacements(bs) = Len(instance.rects)

NoEmptyBin(bs) == \A b \in 1..Len(bs) : Len(bs[b].placements) >= 1

\* the placement of a rectangle that occurs once
PlacementOf(rect, bs) ==
    bs[(CHOOSE bi \in PlacesOf(rect, bs) : TRUE)[1]].placements[
        (CHOOSE bi \in PlacesOf(rect, bs) : TRUE)[2]]

\* two rectangles lie in the same bin
SameBin(r1, r2, bs) ==
    \E b \in 1..Len(bs) :
        \E i, j \in 1..Len(bs[b].placements) :
            bs[b].placements[i].rect = r1 /\ bs[b].placements[j].rect = r2

\* apart from the rectangle moved, every rectangle keeps its position, its
\* rotation and the rectangles it shares a bin with
OthersUntouched(from, to, moved) ==
    \A i, j \in 1..Len(instance.rects) :
        (instance.rects[i] # moved /\ instance.rects[j] # moved) =>
            /\ PlacementOf(instance.rects[i], to) = PlacementOf(instance.rects[i], from)
            /\ SameBin(instance.rects[i], instance.rects[j], to)
                  <=> SameBin(instance.rects[i], instance.rects[j], from)

\* C17: from a solution with every rectangle in exactly one placement and no
\* empty bin, every neighbor of the geometric and of the overlapping
\* neighborhood has every rectangle in exactly one placement and differs
\* only in one rectangle; and the solutions solve returns from the trivial
\* solution and run_overlapping_ls returns hold every rectangle exactly once.
C17_NeighborsKeepRectangles ==
    /\ (neighborhood \in {"geometric", "overlapping"} /\ pc = "ls" /\ ~NeighborsPanics
            /\ ExactlyOnce(boxes) /\ NoEmptyBin(boxes)) =>
          \A ns \in {Neighbors} :
            \A k \in 1..Len(ns) :
                /\ ExactlyOnce(ns[k])
                /\ NoEmptyBin(ns[k])
                /\ \E m \in 1..Len(instance.rects) :
                      OthersUntouched(boxes, ns[k], instance.rects[m])
    /\ (algo \in {"ls_geometric", "run_overlapping_ls"} /\ pc = "done"
            /\ ValidInstance(instance) /\ DistinctIds(instance)) =>
          ExactlyOnce(boxes)

\* a later phase of the annealing, from a solution with a shared bin
C17_Witness ==
    /\ algo = "run_overlapping_ls"
    /\ pc = "ls"
    /\ step >= 1
    /\ ExactlyOnce(boxes) /\ NoEmptyBin(boxes)
    /\ Len(boxes) >= 2
    /\ \E b \in 1..Len(boxes) : Len(boxes[b].placements) >= 2
    /\ Len(Neighbors) >= 3

====
